---- MODULE Spec2Model ----
(***************************************************************************)
(* Metric cells of apache_beam/metrics/cells.py: CounterCell,             *)
(* DistributionCell and GaugeCell (lock-guarded accumulators), the        *)
(* DistributionData / GaugeData value objects, the three aggregators, the *)
(* DistributionResult view and the base classes MetricCell and            *)
(* MetricAggregator.                                                      *)
(*                                                                         *)
(* Objects that the code shares by reference (DistributionData, GaugeData)*)
(* live in `heap`; a cell's `data` attribute is an index into it.  Every  *)
(* attribute load and store that another thread can interleave with is a  *)
(* separate step of the thread's program counter.                         *)
(***************************************************************************)
EXTENDS Integers, Sequences, FiniteSets, TLC

VARIABLES
  compiled,   \* cython.compiled: which build of the module runs
  kind,       \* the class of the cells of this run
  lock,       \* MetricCell._lock of every cell: the holder, or NoThread
  value,      \* CounterCell.value of every cell
  data,       \* DistributionCell.data / GaugeCell.data: a heap reference
  heap,       \* the DistributionData / GaugeData objects allocated so far
  pc,         \* each thread's position in the method it runs
  frame,      \* each thread's locals
  ret,        \* what each thread's last call returned
  calls,      \* number of calls the run may still make
  invoked,    \* history: per cell, how often each value was passed to update
  applied,    \* history: per cell, the updates whose critical section ended
  since,      \* history: per cell, sum of the deltas stored after the last reset
  snaps,      \* history: the snapshots get_cumulative returned, as returned
  sets,       \* history: per GaugeCell, what each set call wrote, in the
              \* order in which the calls held the lock
  alg         \* operands and results of the aggregator algebra

vars == <<compiled, kind, lock, value, data, heap, pc, frame, ret, calls,
          invoked, applied, since, snaps, sets, alg>>

(***************************************************************************)
(* Bounds of the model.                                                    *)
(***************************************************************************)
MaxCalls == 5
MaxRaceCalls == 3
MaxFairCalls == 2
MaxCount == 2
MaxTime == 2

Threads == {"t1", "t2"}
Cells == {"a", "b"}
NoThread == "none"
\* the thread that runs the bundle and records values, and the thread that
\* reports: it reads the cells and merges what it read
Worker == "t1"
Reporter == "t2"
\* the cell a combine call creates is private to the calling thread
ResultCell(t) == t
AllCells == Cells \cup Threads

\* Python's None, and an int, as attribute values
None == <<>>
PyInt(n) == <<n>>
\* the None reference
NoneRef == 0

(***************************************************************************)
(* DistributionData                                                        *)
(***************************************************************************)
\* 2**63 - 1 in the source.  TLC's integers are 32 bits wide, so the
\* sentinel is the largest integer TLC represents; the code only compares
\* it with recorded values, it never adds to it.
INT64_MAX == 2147483647

\* DistributionData.__init__ with the sentinel branch storing min = 0
DistributionData_ZeroSentinel(sum, count, min, max) ==
  IF count # 0
    THEN [sum |-> sum, count |-> count, min |-> min, max |-> max]
    ELSE [sum |-> 0, count |-> 0, min |-> 0, max |-> 0]

\* DistributionData.__init__
DistributionData(sum, count, min, max) ==
  IF count # 0
    THEN [sum |-> sum, count |-> count, min |-> min, max |-> max]
    ELSE [sum |-> 0, count |-> 0, min |-> INT64_MAX, max |-> -INT64_MAX - 1]

\* DistributionData.__eq__
DistributionData_eq(self, other) ==
  /\ self.sum = other.sum
  /\ self.count = other.count
  /\ self.min = other.min
  /\ self.max = other.max

\* DistributionData.get_cumulative
DistributionData_get_cumulative(self) ==
  DistributionData(self.sum, self.count, self.min, self.max)

\* the absent operand of combine (other is None)
NoneData == [none |-> TRUE]

\* DistributionData.combine keeping self's min and max
DistributionData_combine_KeepSelf(self, other) ==
  IF other = NoneData
    THEN self
    ELSE DistributionData(self.sum + other.sum,
                          self.count + other.count,
                          self.min,
                          self.max)

\* DistributionData.combine
DistributionData_combine(self, other) ==
  IF other = NoneData
    THEN self
    ELSE DistributionData(self.sum + other.sum,
                          self.count + other.count,
                          IF self.min < other.min THEN self.min ELSE other.min,
                          IF self.max > other.max THEN self.max ELSE other.max)

\* DistributionData.singleton
DistributionData_singleton(v) == DistributionData(v, 1, v, v)

\* DistributionAggregator.identity_element
DistributionAggregator_identity_element ==
  DistributionData(0, 0, INT64_MAX, -INT64_MAX - 1)

\* DistributionAggregator.combine
DistributionAggregator_combine(x, y) == DistributionData_combine(x, y)

(***************************************************************************)
(* GaugeData.  combine returns one of its operands, not a copy, so the     *)
(* operands are heap references.                                           *)
(***************************************************************************)
\* GaugeData.__init__ (timestamp=None is stored as 0)
GaugeData(v, timestamp) ==
  [value |-> v, timestamp |-> IF timestamp # None THEN timestamp[1] ELSE 0]

\* GaugeData.__eq__
GaugeData_eq(self, other) ==
  self.value = other.value /\ self.timestamp = other.timestamp

\* GaugeData.get_cumulative
GaugeData_get_cumulative(self) == GaugeData(self.value, PyInt(self.timestamp))

\* GaugeData.combine returning other whenever the timestamps differ
GaugeData_combine_NotEqual(h, self, other) ==
  IF other = NoneRef THEN self
  ELSE IF h[other].timestamp # h[self].timestamp THEN other
  ELSE self

\* GaugeData.combine with a tie going to the right operand
GaugeData_combine_TieRight(h, self, other) ==
  IF other = NoneRef THEN self
  ELSE IF h[other].timestamp >= h[self].timestamp THEN other
  ELSE self

\* GaugeData.combine
GaugeData_combine(h, self, other) ==
  IF other = NoneRef THEN self
  ELSE IF h[other].timestamp > h[self].timestamp THEN other
  ELSE self

\* GaugeAggregator.identity_element
GaugeAggregator_identity_element == GaugeData(None, PyInt(0))

\* GaugeAggregator.combine calling y.combine(x)
GaugeAggregator_combine_Swapped(h, x, y) == GaugeData_combine(h, y, x)

\* GaugeAggregator.combine
GaugeAggregator_combine(h, x, y) == GaugeData_combine(h, x, y)

\* CounterAggregator.identity_element
CounterAggregator_identity_element == 0

(***************************************************************************)
(* State shared by all specifications: the threads' frames and the cells.  *)
(***************************************************************************)
\* self is the receiver of the method that runs; outer is the receiver of
\* combine while the update it calls on the new cell runs
IdleFrame ==
  [op |-> "none", self |-> "a", outer |-> "a", other |-> "a", arg |-> 0,
   tmp |-> 0,
   obj |-> NoneRef, obj2 |-> NoneRef, pick |-> NoneRef,
   acc |-> [sum |-> 0, count |-> 0, min |-> 0, max |-> 0]]

NoRet == [tag |-> "none", val |-> 0, obj |-> NoneRef,
          self |-> "a", other |-> "a"]

NoAlg == [stage |-> 0]

\* no thread runs and no cell exists: the state of the algebra's runs
NoCells ==
  /\ compiled = FALSE
  /\ kind = "none"
  /\ lock = [c \in AllCells |-> NoThread]
  /\ value = [c \in AllCells |-> 0]
  /\ data = [c \in AllCells |-> NoneRef]
  /\ pc = [t \in Threads |-> "idle"]
  /\ frame = [t \in Threads |-> IdleFrame]
  /\ ret = [t \in Threads |-> NoRet]
  /\ calls = 0
  /\ invoked = <<>>
  /\ applied = <<>>
  /\ since = <<>>
  /\ snaps = {}
  /\ sets = <<>>

cellVars == <<compiled, kind, lock, value, data, pc, frame, ret, calls,
              invoked, applied, since, snaps, sets>>

(***************************************************************************)
(* Cells.  A run holds cells of one class (kind); threads call the methods *)
(* of the cells in Cells.  Every call is counted in calls.                 *)
(***************************************************************************)
IncArgs == {1, 5}
DecArgs == {2}
UpdateValues == {3, -1, 7}
SetValues == {5, 9}
ArgVals == {-2, -1, 1, 3, 5, 7, 9}

EmptyBag == [v \in ArgVals |-> 0]
BagAdd(bag, v) == [bag EXCEPT ![v] = @ + 1]

\* a fresh cell of each class holds the aggregator's identity element
InitCells(kinds, builds, budget) ==
  /\ compiled \in builds
  /\ kind \in kinds
  /\ lock = [c \in AllCells |-> NoThread]
  /\ value = [c \in AllCells |-> CounterAggregator_identity_element]
  /\ \/ /\ kind \in {"counter", "base"}
        /\ heap = <<>>
        /\ data = [c \in AllCells |-> NoneRef]
     \/ /\ kind = "distribution"
        /\ heap = <<DistributionAggregator_identity_element,
                    DistributionAggregator_identity_element>>
        /\ data = [c \in AllCells |->
                    IF c = "a" THEN 1 ELSE IF c = "b" THEN 2 ELSE NoneRef]
     \/ /\ kind = "gauge"
        /\ heap = <<GaugeAggregator_identity_element,
                    GaugeAggregator_identity_element>>
        /\ data = [c \in AllCells |->
                    IF c = "a" THEN 1 ELSE IF c = "b" THEN 2 ELSE NoneRef]
  /\ pc = [t \in Threads |-> "idle"]
  /\ frame = [t \in Threads |-> IdleFrame]
  /\ ret = [t \in Threads |-> NoRet]
  /\ calls = budget
  /\ invoked = [c \in AllCells |-> EmptyBag]
  /\ applied = [c \in AllCells |-> EmptyBag]
  /\ since = [c \in AllCells |-> 0]
  /\ snaps = {}
  /\ sets = [c \in AllCells |-> <<>>]
  /\ alg = NoAlg

\* a call can be made by an idle thread while the run's budget lasts
CanCall(t, k) == kind = k /\ pc[t] = "idle" /\ calls > 0

\* `with self._lock:` entered without acquiring the lock
Acquire_NoLock(t, next) ==
  /\ pc' = [pc EXCEPT ![t] = next]
  /\ UNCHANGED lock

\* `with self._lock:` -- blocks until the lock is free, then holds it
Acquire(t, next) ==
  /\ lock[frame[t].self] = NoThread
  /\ lock' = [lock EXCEPT ![frame[t].self] = t]
  /\ pc' = [pc EXCEPT ![t] = next]

\* leaving `with self._lock:` without releasing the lock
Release_Keep(t) == UNCHANGED lock

\* leaving `with self._lock:` releases the lock
Release(t) == lock' = [lock EXCEPT ![frame[t].self] = NoThread]

(***************************************************************************)
(* The base classes MetricCell and MetricAggregator, instantiated          *)
(* directly.  The objects are records on the heap.                         *)
(***************************************************************************)
\* the references of the objects of a class
Objects(class) == {o \in 1..Len(heap) : heap[o].class = class}

\* a thread's call of a method of the object at reference o
BaseCall(t, op, o, at) ==
  /\ CanCall(t, "base")
  /\ calls' = calls - 1
  /\ frame' = [frame EXCEPT ![t] = [IdleFrame EXCEPT !.op = op, !.obj = o]]
  /\ pc' = [pc EXCEPT ![t] = at]
  /\ UNCHANGED <<compiled, kind, lock, value, data, heap, ret, invoked,
                 applied, since, snaps, sets, alg>>

\* MetricCell(): the object is allocated and __init__ runs on it
MetricCell_new(t) == BaseCall(t, "__init__", NoneRef, "cell_init")

\* MetricCell.__init__: self._lock = threading.Lock(); the constructor
\* returns the object
MetricCell___init__(t) ==
  /\ pc[t] = "cell_init"
  /\ heap' = Append(heap, [class |-> "MetricCell", lock |-> NoThread])
  /\ ret' = [ret EXCEPT ![t] =
               [NoRet EXCEPT !.tag = "object", !.obj = Len(heap) + 1]]
  /\ frame' = [frame EXCEPT ![t] = IdleFrame]
  /\ pc' = [pc EXCEPT ![t] = "idle"]
  /\ UNCHANGED <<compiled, kind, lock, value, data, calls, invoked, applied,
                 since, snaps, sets, alg>>

\* MetricCell.update(value)
MetricCell_update(t, o) == BaseCall(t, "update", o, "base_raise")

\* MetricCell.get_cumulative()
MetricCell_get_cumulative(t, o) ==
  BaseCall(t, "get_cumulative", o, "base_raise")

\* MetricCell.__reduce__()
MetricCell___reduce__(t, o) == BaseCall(t, "__reduce__", o, "base_raise")

\* MetricAggregator(): the class defines no __init__, so the object is
\* allocated and returned
MetricAggregator_new(t) ==
  /\ CanCall(t, "base")
  /\ calls' = calls - 1
  /\ heap' = Append(heap, [class |-> "MetricAggregator", lock |-> "absent"])
  /\ ret' = [ret EXCEPT ![t] =
               [NoRet EXCEPT !.tag = "object", !.obj = Len(heap) + 1]]
  /\ UNCHANGED <<compiled, kind, lock, value, data, pc, frame, invoked,
                 applied, since, snaps, sets, alg>>

\* MetricAggregator.identity_element()
MetricAggregator_identity_element(t, o) ==
  BaseCall(t, "identity_element", o, "base_raise")

\* MetricAggregator.combine(x, y)
MetricAggregator_combine(t, o) == BaseCall(t, "combine", o, "base_raise")

\* MetricAggregator.result(x)
MetricAggregator_result(t, o) == BaseCall(t, "result", o, "base_raise")

\* a base method that returns a value instead of raising
Raise_NotImplementedError_Return(t) ==
  /\ pc[t] = "base_raise"
  /\ ret' = [ret EXCEPT ![t] = [NoRet EXCEPT !.tag = "int"]]
  /\ frame' = [frame EXCEPT ![t] = IdleFrame]
  /\ pc' = [pc EXCEPT ![t] = "idle"]
  /\ UNCHANGED <<compiled, kind, lock, value, data, heap, calls, invoked,
                 applied, since, snaps, sets, alg>>

\* raise NotImplementedError: the body of every method of the base classes
\* other than MetricCell.__init__
Raise_NotImplementedError(t) ==
  /\ pc[t] = "base_raise"
  /\ ret' = [ret EXCEPT ![t] = [NoRet EXCEPT !.tag = "NotImplementedError"]]
  /\ frame' = [frame EXCEPT ![t] = IdleFrame]
  /\ pc' = [pc EXCEPT ![t] = "idle"]
  /\ UNCHANGED <<compiled, kind, lock, value, data, heap, calls, invoked,
                 applied, since, snaps, sets, alg>>

NextBase ==
  \E t \in Threads :
    \/ MetricCell_new(t)
    \/ MetricCell___init__(t)
    \/ \E o \in Objects("MetricCell") :
         \/ MetricCell_update(t, o)
         \/ MetricCell_get_cumulative(t, o)
         \/ MetricCell___reduce__(t, o)
    \/ MetricAggregator_new(t)
    \/ \E o \in Objects("MetricAggregator") :
         \/ MetricAggregator_identity_element(t, o)
         \/ MetricAggregator_combine(t, o)
         \/ MetricAggregator_result(t, o)
    \/ Raise_NotImplementedError(t)

SpecBase == InitCells({"base"}, BOOLEAN, MaxRaceCalls) /\ [][NextBase]_vars

(***************************************************************************)
(* CounterCell                                                             *)
(***************************************************************************)
\* CounterCell.inc(n): self.update(n)
CounterCell_inc(t, c, n) ==
  /\ CanCall(t, "counter")
  /\ calls' = calls - 1
  /\ frame' = [frame EXCEPT ![t] = [IdleFrame EXCEPT
                  !.op = "update", !.self = c, !.arg = n]]
  /\ invoked' = [invoked EXCEPT ![c] = BagAdd(@, n)]
  /\ pc' = [pc EXCEPT ![t] = "counter_update"]
  /\ UNCHANGED <<compiled, kind, lock, value, data, heap, ret, applied,
                 since, snaps, sets, alg>>

\* CounterCell.dec(n): self.update(-n)
CounterCell_dec(t, c, n) ==
  /\ CanCall(t, "counter")
  /\ calls' = calls - 1
  /\ frame' = [frame EXCEPT ![t] = [IdleFrame EXCEPT
                  !.op = "update", !.self = c, !.arg = -n]]
  /\ invoked' = [invoked EXCEPT ![c] = BagAdd(@, -n)]
  /\ pc' = [pc EXCEPT ![t] = "counter_update"]
  /\ UNCHANGED <<compiled, kind, lock, value, data, heap, ret, applied,
                 since, snaps, sets, alg>>

\* what the call that ran update returns: nothing for inc/dec, the new
\* cell for combine
UpdateReturn(t, v) ==
  IF frame[t].op = "combine"
    THEN [tag |-> "cell", val |-> v, obj |-> NoneRef,
          self |-> frame[t].outer, other |-> frame[t].other]
    ELSE NoRet

\* CounterCell.update, compiled build: self.value += ivalue under the GIL
CounterCell_update_compiled(t) ==
  /\ pc[t] = "counter_update"
  /\ compiled
  /\ LET c == frame[t].self IN
       /\ value' = [value EXCEPT ![c] = @ + frame[t].arg]
       /\ since' = [since EXCEPT ![c] = @ + frame[t].arg]
       /\ applied' = [applied EXCEPT ![c] =
                        IF frame[t].op = "update" THEN BagAdd(@, frame[t].arg)
                        ELSE @]
  /\ ret' = [ret EXCEPT ![t] =
               UpdateReturn(t, value[frame[t].self] + frame[t].arg)]
  /\ frame' = [frame EXCEPT ![t] = IdleFrame]
  /\ pc' = [pc EXCEPT ![t] = "idle"]
  /\ UNCHANGED <<compiled, kind, lock, data, heap, calls, invoked, snaps, sets, alg>>

\* CounterCell.update, interpreted build: with self._lock:
CounterCell_update_acquire(t) ==
  /\ pc[t] = "counter_update"
  /\ ~compiled
  /\ Acquire(t, "counter_update_load")
  /\ UNCHANGED <<compiled, kind, value, data, heap, frame, ret, calls,
                 invoked, applied, since, snaps, sets, alg>>

\* self.value += value: the load of self.value
CounterCell_update_load(t) ==
  /\ pc[t] = "counter_update_load"
  /\ frame' = [frame EXCEPT ![t].tmp = value[frame[t].self]]
  /\ pc' = [pc EXCEPT ![t] = "counter_update_store"]
  /\ UNCHANGED <<compiled, kind, lock, value, data, heap, ret, calls,
                 invoked, applied, since, snaps, sets, alg>>

\* self.value += value: the store of the sum
CounterCell_update_store(t) ==
  /\ pc[t] = "counter_update_store"
  /\ LET c == frame[t].self IN
       /\ value' = [value EXCEPT ![c] = frame[t].tmp + frame[t].arg]
       /\ since' = [since EXCEPT ![c] = @ + frame[t].arg]
  /\ pc' = [pc EXCEPT ![t] = "counter_update_release"]
  /\ UNCHANGED <<compiled, kind, lock, data, heap, frame, ret, calls,
                 invoked, applied, snaps, sets, alg>>

\* the end of the with block, and the return
CounterCell_update_release(t) ==
  /\ pc[t] = "counter_update_release"
  /\ Release(t)
  /\ applied' = [applied EXCEPT ![frame[t].self] =
                   IF frame[t].op = "update" THEN BagAdd(@, frame[t].arg)
                   ELSE @]
  /\ ret' = [ret EXCEPT ![t] = UpdateReturn(t, value[frame[t].self])]
  /\ frame' = [frame EXCEPT ![t] = IdleFrame]
  /\ pc' = [pc EXCEPT ![t] = "idle"]
  /\ UNCHANGED <<compiled, kind, value, data, heap, calls, invoked, since,
                 snaps, sets, alg>>

\* CounterCell.reset: self.value = CounterAggregator.identity_element(),
\* one store, outside any lock
CounterCell_reset(t, c) ==
  /\ CanCall(t, "counter")
  /\ calls' = calls - 1
  /\ value' = [value EXCEPT ![c] = CounterAggregator_identity_element]
  /\ since' = [since EXCEPT ![c] = 0]
  /\ ret' = [ret EXCEPT ![t] = NoRet]
  /\ UNCHANGED <<compiled, kind, lock, data, heap, pc, frame, invoked,
                 applied, snaps, sets, alg>>

\* CounterCell.get_cumulative is called
CounterCell_get_cumulative(t, c) ==
  /\ CanCall(t, "counter")
  /\ calls' = calls - 1
  /\ frame' = [frame EXCEPT ![t] = [IdleFrame EXCEPT
                  !.op = "get_cumulative", !.self = c]]
  /\ pc' = [pc EXCEPT ![t] = "counter_get"]
  /\ UNCHANGED <<compiled, kind, lock, value, data, heap, ret, invoked,
                 applied, since, snaps, sets, alg>>

\* with self._lock:
CounterCell_get_cumulative_acquire(t) ==
  /\ pc[t] = "counter_get"
  /\ Acquire(t, "counter_get_read")
  /\ UNCHANGED <<compiled, kind, value, data, heap, frame, ret, calls,
                 invoked, applied, since, snaps, sets, alg>>

\* return self.value (the lock is released on the way out)
CounterCell_get_cumulative_read(t) ==
  /\ pc[t] = "counter_get_read"
  /\ Release(t)
  /\ LET c == frame[t].self IN
       /\ ret' = [ret EXCEPT ![t] =
                    [NoRet EXCEPT !.tag = "int", !.val = value[c]]]
       /\ snaps' = snaps \cup
            {[cell |-> c, obj |-> NoneRef, val |-> value[c],
              committed |-> applied[c], total |-> invoked[c],
              quiet |-> \A u \in Threads \ {t} : pc[u] = "idle"]}
  /\ frame' = [frame EXCEPT ![t] = IdleFrame]
  /\ pc' = [pc EXCEPT ![t] = "idle"]
  /\ UNCHANGED <<compiled, kind, value, data, heap, calls, invoked, applied,
                 since, sets, alg>>

\* CounterCell.combine is called: result = CounterCell()
CounterCell_combine(t, c, o) ==
  /\ CanCall(t, "counter")
  /\ calls' = calls - 1
  /\ frame' = [frame EXCEPT ![t] = [IdleFrame EXCEPT
                  !.op = "combine", !.self = c, !.other = o]]
  /\ value' = [value EXCEPT ![ResultCell(t)] =
                 CounterAggregator_identity_element]
  /\ since' = [since EXCEPT ![ResultCell(t)] = 0]
  /\ pc' = [pc EXCEPT ![t] = "counter_combine_self"]
  /\ UNCHANGED <<compiled, kind, lock, data, heap, ret, invoked, applied,
                 snaps, sets, alg>>

\* self.value + other.value: the load of self.value
CounterCell_combine_self(t) ==
  /\ pc[t] = "counter_combine_self"
  /\ frame' = [frame EXCEPT ![t].tmp = value[frame[t].self]]
  /\ pc' = [pc EXCEPT ![t] = "counter_combine_other"]
  /\ UNCHANGED <<compiled, kind, lock, value, data, heap, ret, calls,
                 invoked, applied, since, snaps, sets, alg>>

\* CounterCell.combine calling self.inc(...) instead of result.inc(...)
CounterCell_combine_other_IncSelf(t) ==
  /\ pc[t] = "counter_combine_other"
  /\ frame' = [frame EXCEPT
        ![t].arg = frame[t].tmp + value[frame[t].other],
        ![t].outer = frame[t].self]
  /\ pc' = [pc EXCEPT ![t] = "counter_update"]
  /\ UNCHANGED <<compiled, kind, lock, value, data, heap, ret, calls,
                 invoked, applied, since, snaps, sets, alg>>

\* self.value + other.value: the load of other.value; then
\* result.inc(...) runs update on the new cell
CounterCell_combine_other(t) ==
  /\ pc[t] = "counter_combine_other"
  /\ frame' = [frame EXCEPT
        ![t].arg = frame[t].tmp + value[frame[t].other],
        ![t].outer = frame[t].self,
        ![t].self = ResultCell(t)]
  /\ pc' = [pc EXCEPT ![t] = "counter_update"]
  /\ UNCHANGED <<compiled, kind, lock, value, data, heap, ret, calls,
                 invoked, applied, since, snaps, sets, alg>>

\* the steps inside CounterCell methods
CounterSteps(t) ==
  \/ CounterCell_update_compiled(t)
  \/ CounterCell_update_acquire(t)
  \/ CounterCell_update_load(t)
  \/ CounterCell_update_store(t)
  \/ CounterCell_update_release(t)
  \/ CounterCell_get_cumulative_acquire(t)
  \/ CounterCell_get_cumulative_read(t)
  \/ CounterCell_combine_self(t)
  \/ CounterCell_combine_other(t)

(***************************************************************************)
(* DistributionCell                                                        *)
(***************************************************************************)
\* DistributionData.get_cumulative returning self instead of a copy
DistributionData_get_cumulative_Alias(h, o) == <<h, o>>

\* DistributionData.get_cumulative on the object at reference o: the heap
\* with the new object, and the reference of the new object
DistributionData_get_cumulative_ref(h, o) ==
  <<Append(h, DistributionData_get_cumulative(h[o])), Len(h) + 1>>

\* DistributionCell.update is called
DistributionCell_update(t, c, v) ==
  /\ CanCall(t, "distribution")
  /\ calls' = calls - 1
  /\ frame' = [frame EXCEPT ![t] = [IdleFrame EXCEPT
                  !.op = "update", !.self = c, !.arg = v]]
  /\ invoked' = [invoked EXCEPT ![c] = BagAdd(@, v)]
  /\ pc' = [pc EXCEPT ![t] = "dist_update"]
  /\ UNCHANGED <<compiled, kind, lock, value, data, heap, ret, applied,
                 since, snaps, sets, alg>>

\* DistributionCell._update run without interruption
DistributionCell__update(d, ivalue) ==
  [sum |-> d.sum + ivalue,
   count |-> d.count + 1,
   min |-> IF ivalue < d.min THEN ivalue ELSE d.min,
   max |-> IF ivalue > d.max THEN ivalue ELSE d.max]

\* DistributionCell.update, compiled build: the GIL is held throughout
\* the entire _update
DistributionCell_update_compiled(t) ==
  /\ pc[t] = "dist_update"
  /\ compiled
  /\ LET c == frame[t].self IN
       /\ heap' = [heap EXCEPT ![data[c]] =
                     DistributionCell__update(@, frame[t].arg)]
       /\ applied' = [applied EXCEPT ![c] = BagAdd(@, frame[t].arg)]
  /\ ret' = [ret EXCEPT ![t] = NoRet]
  /\ frame' = [frame EXCEPT ![t] = IdleFrame]
  /\ pc' = [pc EXCEPT ![t] = "idle"]
  /\ UNCHANGED <<compiled, kind, lock, value, data, calls, invoked, since,
                 snaps, sets, alg>>

\* DistributionCell.update, interpreted build: with self._lock:
DistributionCell_update_acquire(t) ==
  /\ pc[t] = "dist_update"
  /\ ~compiled
  /\ Acquire(t, "dist_update_count_load")
  /\ UNCHANGED <<compiled, kind, value, data, heap, frame, ret, calls,
                 invoked, applied, since, snaps, sets, alg>>

\* a step of _update that evaluates an expression over self.data
UpdateLoad(t, at, v, next) ==
  /\ pc[t] = at
  /\ frame' = [frame EXCEPT ![t].tmp = v]
  /\ pc' = [pc EXCEPT ![t] = next]
  /\ UNCHANGED <<compiled, kind, lock, value, data, heap, ret, calls,
                 invoked, applied, since, snaps, sets, alg>>

\* a step of _update that stores into the object self.data names now
UpdateStore(t, at, d, next) ==
  /\ pc[t] = at
  /\ heap' = [heap EXCEPT ![data[frame[t].self]] = d]
  /\ pc' = [pc EXCEPT ![t] = next]
  /\ UNCHANGED <<compiled, kind, lock, value, data, frame, ret, calls,
                 invoked, applied, since, snaps, sets, alg>>

\* the object self.data names now
SelfData(t) == heap[data[frame[t].self]]

\* self.data.count = self.data.count + 1
DistributionCell__update_count_load(t) ==
  UpdateLoad(t, "dist_update_count_load", SelfData(t).count + 1,
             "dist_update_count_store")

DistributionCell__update_count_store(t) ==
  UpdateStore(t, "dist_update_count_store",
              [SelfData(t) EXCEPT !.count = frame[t].tmp],
              "dist_update_sum_load")

\* self.data.sum = self.data.sum + ivalue
DistributionCell__update_sum_load(t) ==
  UpdateLoad(t, "dist_update_sum_load", SelfData(t).sum + frame[t].arg,
             "dist_update_sum_store")

DistributionCell__update_sum_store(t) ==
  UpdateStore(t, "dist_update_sum_store",
              [SelfData(t) EXCEPT !.sum = frame[t].tmp],
              "dist_update_min_test")

\* DistributionCell._update never lowering min
DistributionCell__update_min_test_Skip(t) ==
  UpdateLoad(t, "dist_update_min_test", frame[t].tmp, "dist_update_max_test")

\* if ivalue < self.data.min:
DistributionCell__update_min_test(t) ==
  UpdateLoad(t, "dist_update_min_test", frame[t].tmp,
             IF frame[t].arg < SelfData(t).min
               THEN "dist_update_min_store" ELSE "dist_update_max_test")

\*   self.data.min = ivalue
DistributionCell__update_min_store(t) ==
  UpdateStore(t, "dist_update_min_store",
              [SelfData(t) EXCEPT !.min = frame[t].arg],
              "dist_update_max_test")

\* if ivalue > self.data.max:
DistributionCell__update_max_test(t) ==
  UpdateLoad(t, "dist_update_max_test", frame[t].tmp,
             IF frame[t].arg > SelfData(t).max
               THEN "dist_update_max_store" ELSE "dist_update_release")

\*   self.data.max = ivalue
DistributionCell__update_max_store(t) ==
  UpdateStore(t, "dist_update_max_store",
              [SelfData(t) EXCEPT !.max = frame[t].arg],
              "dist_update_release")

\* the end of the with block of update, and the return
DistributionCell_update_release(t) ==
  /\ pc[t] = "dist_update_release"
  /\ Release(t)
  /\ applied' = [applied EXCEPT ![frame[t].self] = BagAdd(@, frame[t].arg)]
  /\ ret' = [ret EXCEPT ![t] = NoRet]
  /\ frame' = [frame EXCEPT ![t] = IdleFrame]
  /\ pc' = [pc EXCEPT ![t] = "idle"]
  /\ UNCHANGED <<compiled, kind, value, data, heap, calls, invoked, since,
                 snaps, sets, alg>>

\* DistributionCell.reset: self.data = a new identity element, one store,
\* outside any lock
DistributionCell_reset(t, c) ==
  /\ CanCall(t, "distribution")
  /\ calls' = calls - 1
  /\ heap' = Append(heap, DistributionAggregator_identity_element)
  /\ data' = [data EXCEPT ![c] = Len(heap) + 1]
  /\ ret' = [ret EXCEPT ![t] = NoRet]
  /\ UNCHANGED <<compiled, kind, lock, value, pc, frame, invoked, applied,
                 since, snaps, sets, alg>>

\* DistributionCell.get_cumulative is called
DistributionCell_get_cumulative(t, c) ==
  /\ CanCall(t, "distribution")
  /\ calls' = calls - 1
  /\ frame' = [frame EXCEPT ![t] = [IdleFrame EXCEPT
                  !.op = "get_cumulative", !.self = c]]
  /\ pc' = [pc EXCEPT ![t] = "dist_get"]
  /\ UNCHANGED <<compiled, kind, lock, value, data, heap, ret, invoked,
                 applied, since, snaps, sets, alg>>

\* get_cumulative reading without the lock
DistributionCell_get_cumulative_unlocked(t) ==
  /\ pc[t] = "dist_get"
  /\ pc' = [pc EXCEPT ![t] = "dist_get_read"]
  /\ UNCHANGED <<compiled, kind, lock, value, data, heap, frame, ret, calls,
                 invoked, applied, since, snaps, sets, alg>>

\* with self._lock:
DistributionCell_get_cumulative_acquire(t) ==
  /\ pc[t] = "dist_get"
  /\ Acquire(t, "dist_get_read")
  /\ UNCHANGED <<compiled, kind, value, data, heap, frame, ret, calls,
                 invoked, applied, since, snaps, sets, alg>>

\* return self.data.get_cumulative() (the lock is released on the way out)
DistributionCell_get_cumulative_read(t) ==
  /\ pc[t] = "dist_get_read"
  /\ Release(t)
  /\ LET c == frame[t].self
         r == DistributionData_get_cumulative_ref(heap, data[c])
     IN /\ heap' = r[1]
        /\ ret' = [ret EXCEPT ![t] =
                     [NoRet EXCEPT !.tag = "snap", !.obj = r[2]]]
        /\ snaps' = snaps \cup
             {[cell |-> c, obj |-> r[2], val |-> r[1][r[2]],
               committed |-> applied[c], total |-> invoked[c],
               quiet |-> \A u \in Threads \ {t} : pc[u] = "idle"]}
  /\ frame' = [frame EXCEPT ![t] = IdleFrame]
  /\ pc' = [pc EXCEPT ![t] = "idle"]
  /\ UNCHANGED <<compiled, kind, value, data, calls, invoked, applied,
                 since, sets, alg>>

\* DistributionCell.combine is called: result = DistributionCell()
DistributionCell_combine(t, c, o) ==
  /\ CanCall(t, "distribution")
  /\ calls' = calls - 1
  /\ frame' = [frame EXCEPT ![t] = [IdleFrame EXCEPT
                  !.op = "combine", !.self = c, !.other = o]]
  /\ heap' = Append(heap, DistributionAggregator_identity_element)
  /\ data' = [data EXCEPT ![ResultCell(t)] = Len(heap) + 1]
  /\ pc' = [pc EXCEPT ![t] = "dist_combine"]
  /\ UNCHANGED <<compiled, kind, lock, value, ret, invoked, applied, since,
                 snaps, sets, alg>>

\* result.data = <the new DistributionData>; return result
CombineReturn(t, d) ==
  /\ heap' = Append(heap, d)
  /\ data' = [data EXCEPT ![ResultCell(t)] = Len(heap) + 1]
  /\ ret' = [ret EXCEPT ![t] =
               [tag |-> "cell", val |-> 0, obj |-> Len(heap) + 1,
                self |-> frame[t].self, other |-> frame[t].other]]
  /\ frame' = [frame EXCEPT ![t] = IdleFrame]
  /\ pc' = [pc EXCEPT ![t] = "idle"]

\* compiled build: self.data.combine(other.data) runs under the GIL
DistributionCell_combine_compiled(t) ==
  /\ pc[t] = "dist_combine"
  /\ compiled
  /\ CombineReturn(t, DistributionData_combine(heap[data[frame[t].self]],
                                               heap[data[frame[t].other]]))
  /\ UNCHANGED <<compiled, kind, lock, value, calls, invoked, applied,
                 since, snaps, sets, alg>>

\* a step of combine that only changes the thread's locals
CombineLoad(t, at, f, next) ==
  /\ pc[t] = at
  /\ frame' = [frame EXCEPT ![t] = f]
  /\ pc' = [pc EXCEPT ![t] = next]
  /\ UNCHANGED <<compiled, kind, lock, value, data, heap, ret, calls,
                 invoked, applied, since, snaps, sets, alg>>

\* interpreted build: the load of self.data
DistributionCell_combine_self(t) ==
  /\ ~compiled
  /\ CombineLoad(t, "dist_combine",
                 [frame[t] EXCEPT !.obj = data[frame[t].self]],
                 "dist_combine_other")

\* the load of other.data
DistributionCell_combine_other(t) ==
  CombineLoad(t, "dist_combine_other",
              [frame[t] EXCEPT !.obj2 = data[frame[t].other]],
              "dist_combine_sum_self")

\* self.sum + other.sum
DistributionData_combine_sum_self(t) ==
  CombineLoad(t, "dist_combine_sum_self",
              [frame[t] EXCEPT !.acc.sum = heap[frame[t].obj].sum],
              "dist_combine_sum_other")

DistributionData_combine_sum_other(t) ==
  CombineLoad(t, "dist_combine_sum_other",
              [frame[t] EXCEPT !.acc.sum = @ + heap[frame[t].obj2].sum],
              "dist_combine_count_self")

\* self.count + other.count
DistributionData_combine_count_self(t) ==
  CombineLoad(t, "dist_combine_count_self",
              [frame[t] EXCEPT !.acc.count = heap[frame[t].obj].count],
              "dist_combine_count_other")

DistributionData_combine_count_other(t) ==
  CombineLoad(t, "dist_combine_count_other",
              [frame[t] EXCEPT !.acc.count = @ + heap[frame[t].obj2].count],
              "dist_combine_min_self")

\* self.min if self.min < other.min else other.min: the condition loads
\* both, then the chosen attribute is loaded again
DistributionData_combine_min_self(t) ==
  CombineLoad(t, "dist_combine_min_self",
              [frame[t] EXCEPT !.tmp = heap[frame[t].obj].min],
              "dist_combine_min_other")

DistributionData_combine_min_other(t) ==
  CombineLoad(t, "dist_combine_min_other",
              [frame[t] EXCEPT !.pick =
                 IF frame[t].tmp < heap[frame[t].obj2].min
                   THEN frame[t].obj ELSE frame[t].obj2],
              "dist_combine_min_pick")

DistributionData_combine_min_pick(t) ==
  CombineLoad(t, "dist_combine_min_pick",
              [frame[t] EXCEPT !.acc.min = heap[frame[t].pick].min],
              "dist_combine_max_self")

\* self.max if self.max > other.max else other.max
DistributionData_combine_max_self(t) ==
  CombineLoad(t, "dist_combine_max_self",
              [frame[t] EXCEPT !.tmp = heap[frame[t].obj].max],
              "dist_combine_max_other")

DistributionData_combine_max_other(t) ==
  CombineLoad(t, "dist_combine_max_other",
              [frame[t] EXCEPT !.pick =
                 IF frame[t].tmp > heap[frame[t].obj2].max
                   THEN frame[t].obj ELSE frame[t].obj2],
              "dist_combine_max_pick")

DistributionData_combine_max_pick(t) ==
  CombineLoad(t, "dist_combine_max_pick",
              [frame[t] EXCEPT !.acc.max = heap[frame[t].pick].max],
              "dist_combine_new")

\* DistributionData(...) of the four values; result.data = it; return
DistributionCell_combine_return(t) ==
  /\ pc[t] = "dist_combine_new"
  /\ CombineReturn(t, DistributionData(frame[t].acc.sum, frame[t].acc.count,
                                       frame[t].acc.min, frame[t].acc.max))
  /\ UNCHANGED <<compiled, kind, lock, value, calls, invoked, applied,
                 since, snaps, sets, alg>>

\* the steps inside DistributionCell.update
DistUpdateSteps(t) ==
  \/ DistributionCell_update_compiled(t)
  \/ DistributionCell_update_acquire(t)
  \/ DistributionCell__update_count_load(t)
  \/ DistributionCell__update_count_store(t)
  \/ DistributionCell__update_sum_load(t)
  \/ DistributionCell__update_sum_store(t)
  \/ DistributionCell__update_min_test(t)
  \/ DistributionCell__update_min_store(t)
  \/ DistributionCell__update_max_test(t)
  \/ DistributionCell__update_max_store(t)
  \/ DistributionCell_update_release(t)

\* the steps inside DistributionCell.get_cumulative
DistGetSteps(t) ==
  \/ DistributionCell_get_cumulative_acquire(t)
  \/ DistributionCell_get_cumulative_read(t)

\* the steps inside DistributionCell.combine
DistCombineSteps(t) ==
  \/ DistributionCell_combine_compiled(t)
  \/ DistributionCell_combine_self(t)
  \/ DistributionCell_combine_other(t)
  \/ DistributionData_combine_sum_self(t)
  \/ DistributionData_combine_sum_other(t)
  \/ DistributionData_combine_count_self(t)
  \/ DistributionData_combine_count_other(t)
  \/ DistributionData_combine_min_self(t)
  \/ DistributionData_combine_min_other(t)
  \/ DistributionData_combine_min_pick(t)
  \/ DistributionData_combine_max_self(t)
  \/ DistributionData_combine_max_other(t)
  \/ DistributionData_combine_max_pick(t)
  \/ DistributionCell_combine_return(t)

\* update and get_cumulative on one DistributionCell
NextDist ==
  \E t \in Threads :
    \/ \E v \in UpdateValues : DistributionCell_update(t, "a", v)
    \/ DistributionCell_get_cumulative(t, "a")
    \/ DistUpdateSteps(t)
    \/ DistGetSteps(t)

SpecDist ==
  InitCells({"distribution"}, BOOLEAN, MaxCalls) /\ [][NextDist]_vars

\* update and combine on two DistributionCells
NextDistCombine ==
  \E t \in Threads :
    \/ \E c \in Cells, v \in UpdateValues : DistributionCell_update(t, c, v)
    \/ \E c \in Cells, o \in Cells : DistributionCell_combine(t, c, o)
    \/ DistUpdateSteps(t)
    \/ DistCombineSteps(t)

SpecDistCombine ==
  InitCells({"distribution"}, BOOLEAN, MaxRaceCalls) /\ [][NextDistCombine]_vars

(***************************************************************************)
(* GaugeCell                                                               *)
(***************************************************************************)
\* GaugeData.get_cumulative on the object at reference o: the heap with
\* the new object, and the reference of the new object
GaugeData_get_cumulative_ref(h, o) ==
  <<Append(h, GaugeData_get_cumulative(h[o])), Len(h) + 1>>

\* GaugeCell.set(value): self.update(value); value = int(value)
GaugeCell_set(t, c, v) ==
  /\ CanCall(t, "gauge")
  /\ calls' = calls - 1
  /\ frame' = [frame EXCEPT ![t] = [IdleFrame EXCEPT
                  !.op = "update", !.self = c, !.arg = v]]
  /\ invoked' = [invoked EXCEPT ![c] = BagAdd(@, v)]
  /\ pc' = [pc EXCEPT ![t] = "gauge_update"]
  /\ UNCHANGED <<compiled, kind, lock, value, data, heap, ret, applied,
                 since, snaps, sets, alg>>

\* GaugeCell.update: with self._lock:
GaugeCell_update_acquire(t) ==
  /\ pc[t] = "gauge_update"
  /\ Acquire(t, "gauge_update_value")
  /\ UNCHANGED <<compiled, kind, value, data, heap, frame, ret, calls,
                 invoked, applied, since, snaps, sets, alg>>

\* self.data.value = value
GaugeCell_update_value(t) ==
  UpdateStore(t, "gauge_update_value",
              [SelfData(t) EXCEPT !.value = PyInt(frame[t].arg)],
              "gauge_update_timestamp")

\* GaugeCell.update keeping the later of the stored timestamp and the
\* clock reading
GaugeCell_update_timestamp_KeepLatest(t) ==
  \E now \in 1..MaxTime :
    /\ pc[t] = "gauge_update_timestamp"
    /\ heap' = [heap EXCEPT ![data[frame[t].self]].timestamp =
                   IF now > @ THEN now ELSE @]
    /\ sets' = [sets EXCEPT ![frame[t].self] =
                   Append(@, [value |-> PyInt(frame[t].arg),
                              timestamp |-> now])]
    /\ pc' = [pc EXCEPT ![t] = "gauge_update_release"]
    /\ UNCHANGED <<compiled, kind, lock, value, data, frame, ret, calls,
                   invoked, applied, since, snaps, alg>>

\* self.data.timestamp = time.time(): the wall clock may read anything;
\* the store goes to the object self.data names now
GaugeCell_update_timestamp(t) ==
  \E now \in 1..MaxTime :
    /\ pc[t] = "gauge_update_timestamp"
    /\ heap' = [heap EXCEPT ![data[frame[t].self]].timestamp = now]
    /\ sets' = [sets EXCEPT ![frame[t].self] =
                   Append(@, [value |-> PyInt(frame[t].arg),
                              timestamp |-> now])]
    /\ pc' = [pc EXCEPT ![t] = "gauge_update_release"]
    /\ UNCHANGED <<compiled, kind, lock, value, data, frame, ret, calls,
                   invoked, applied, since, snaps, alg>>

\* the end of the with block of update, and the return
GaugeCell_update_release(t) ==
  /\ pc[t] = "gauge_update_release"
  /\ Release(t)
  /\ applied' = [applied EXCEPT ![frame[t].self] = BagAdd(@, frame[t].arg)]
  /\ ret' = [ret EXCEPT ![t] = NoRet]
  /\ frame' = [frame EXCEPT ![t] = IdleFrame]
  /\ pc' = [pc EXCEPT ![t] = "idle"]
  /\ UNCHANGED <<compiled, kind, value, data, heap, calls, invoked, since,
                 snaps, sets, alg>>

\* GaugeCell.reset: self.data = a new identity element, one store,
\* outside any lock
GaugeCell_reset(t, c) ==
  /\ CanCall(t, "gauge")
  /\ calls' = calls - 1
  /\ heap' = Append(heap, GaugeAggregator_identity_element)
  /\ data' = [data EXCEPT ![c] = Len(heap) + 1]
  /\ ret' = [ret EXCEPT ![t] = NoRet]
  /\ UNCHANGED <<compiled, kind, lock, value, pc, frame, invoked, applied,
                 since, snaps, sets, alg>>

\* GaugeCell.get_cumulative is called
GaugeCell_get_cumulative(t, c) ==
  /\ CanCall(t, "gauge")
  /\ calls' = calls - 1
  /\ frame' = [frame EXCEPT ![t] = [IdleFrame EXCEPT
                  !.op = "get_cumulative", !.self = c]]
  /\ pc' = [pc EXCEPT ![t] = "gauge_get"]
  /\ UNCHANGED <<compiled, kind, lock, value, data, heap, ret, invoked,
                 applied, since, snaps, sets, alg>>

\* with self._lock:
GaugeCell_get_cumulative_acquire(t) ==
  /\ pc[t] = "gauge_get"
  /\ Acquire(t, "gauge_get_read")
  /\ UNCHANGED <<compiled, kind, value, data, heap, frame, ret, calls,
                 invoked, applied, since, snaps, sets, alg>>

\* what the set call that held the lock last wrote; the identity element
\* a fresh cell holds when there was none
LastSet(c) ==
  IF sets[c] = <<>> THEN GaugeAggregator_identity_element
  ELSE sets[c][Len(sets[c])]

\* return self.data.get_cumulative() (the lock is released on the way out)
GaugeCell_get_cumulative_read(t) ==
  /\ pc[t] = "gauge_get_read"
  /\ Release(t)
  /\ LET c == frame[t].self
         r == GaugeData_get_cumulative_ref(heap, data[c])
     IN /\ heap' = r[1]
        /\ ret' = [ret EXCEPT ![t] =
                     [NoRet EXCEPT !.tag = "snap", !.obj = r[2]]]
        /\ snaps' = snaps \cup
             {[cell |-> c, obj |-> r[2], val |-> r[1][r[2]],
               committed |-> applied[c], total |-> invoked[c],
               quiet |-> \A u \in Threads \ {t} : pc[u] = "idle",
               latest |-> LastSet(c)]}
  /\ frame' = [frame EXCEPT ![t] = IdleFrame]
  /\ pc' = [pc EXCEPT ![t] = "idle"]
  /\ UNCHANGED <<compiled, kind, value, data, calls, invoked, applied,
                 since, sets, alg>>

\* GaugeCell.combine is called: result = GaugeCell()
GaugeCell_combine(t, c, o) ==
  /\ CanCall(t, "gauge")
  /\ calls' = calls - 1
  /\ frame' = [frame EXCEPT ![t] = [IdleFrame EXCEPT
                  !.op = "combine", !.self = c, !.other = o]]
  /\ heap' = Append(heap, GaugeAggregator_identity_element)
  /\ data' = [data EXCEPT ![ResultCell(t)] = Len(heap) + 1]
  /\ pc' = [pc EXCEPT ![t] = "gauge_combine"]
  /\ UNCHANGED <<compiled, kind, lock, value, ret, invoked, applied, since,
                 snaps, sets, alg>>

\* result.data = <the GaugeData that combine returned>; return result
GaugeCombineReturn(t, o) ==
  /\ data' = [data EXCEPT ![ResultCell(t)] = o]
  /\ ret' = [ret EXCEPT ![t] =
               [tag |-> "cell", val |-> 0, obj |-> o,
                self |-> frame[t].self, other |-> frame[t].other]]
  /\ frame' = [frame EXCEPT ![t] = IdleFrame]
  /\ pc' = [pc EXCEPT ![t] = "idle"]
  /\ UNCHANGED <<compiled, kind, lock, value, heap, calls, invoked, applied,
                 since, snaps, sets, alg>>

\* compiled build: self.data.combine(other.data) runs under the GIL
GaugeCell_combine_compiled(t) ==
  /\ pc[t] = "gauge_combine"
  /\ compiled
  /\ GaugeCombineReturn(t, GaugeData_combine(heap, data[frame[t].self],
                                             data[frame[t].other]))

\* interpreted build: the load of self.data
GaugeCell_combine_self(t) ==
  /\ ~compiled
  /\ CombineLoad(t, "gauge_combine",
                 [frame[t] EXCEPT !.obj = data[frame[t].self]],
                 "gauge_combine_other")

\* the load of other.data
GaugeCell_combine_other(t) ==
  CombineLoad(t, "gauge_combine_other",
              [frame[t] EXCEPT !.obj2 = data[frame[t].other]],
              "gauge_combine_other_timestamp")

\* other.timestamp > self.timestamp: the load of other.timestamp (other is
\* not None here)
GaugeData_combine_other_timestamp(t) ==
  CombineLoad(t, "gauge_combine_other_timestamp",
              [frame[t] EXCEPT !.tmp = heap[frame[t].obj2].timestamp],
              "gauge_combine_self_timestamp")

\* the load of self.timestamp and the comparison: return other, or self
GaugeData_combine_self_timestamp(t) ==
  CombineLoad(t, "gauge_combine_self_timestamp",
              [frame[t] EXCEPT !.pick =
                 IF frame[t].tmp > heap[frame[t].obj].timestamp
                   THEN frame[t].obj2 ELSE frame[t].obj],
              "gauge_combine_return")

\* result.data = <the returned object>; return result
GaugeCell_combine_return(t) ==
  /\ pc[t] = "gauge_combine_return"
  /\ GaugeCombineReturn(t, frame[t].pick)

\* the steps inside GaugeCell.combine
GaugeCombineSteps(t) ==
  \/ GaugeCell_combine_compiled(t)
  \/ GaugeCell_combine_self(t)
  \/ GaugeCell_combine_other(t)
  \/ GaugeData_combine_other_timestamp(t)
  \/ GaugeData_combine_self_timestamp(t)
  \/ GaugeCell_combine_return(t)

\* the steps inside GaugeCell.update
GaugeUpdateSteps(t) ==
  \/ GaugeCell_update_acquire(t)
  \/ GaugeCell_update_value(t)
  \/ GaugeCell_update_timestamp(t)
  \/ GaugeCell_update_release(t)

\* the steps inside GaugeCell.get_cumulative
GaugeGetSteps(t) ==
  \/ GaugeCell_get_cumulative_acquire(t)
  \/ GaugeCell_get_cumulative_read(t)

\* set and get_cumulative on one GaugeCell
NextGauge ==
  \E t \in Threads :
    \/ \E v \in SetValues : GaugeCell_set(t, "a", v)
    \/ GaugeCell_get_cumulative(t, "a")
    \/ GaugeUpdateSteps(t)
    \/ GaugeGetSteps(t)

SpecGauge ==
  InitCells({"gauge"}, BOOLEAN, MaxRaceCalls) /\ [][NextGauge]_vars

\* the same with reset
NextGaugeReset ==
  \/ NextGauge
  \/ \E t \in Threads : GaugeCell_reset(t, "a")

SpecGaugeReset ==
  InitCells({"gauge"}, BOOLEAN, MaxRaceCalls) /\ [][NextGaugeReset]_vars

\* the cells that exist: the two shared cells and the cells combine
\* returned
Live == {c \in AllCells : data[c] # NoneRef}

\* two cells are combined and the inputs and the result are used further:
\* the bundle's thread sets/updates, resets and combines, the reporting
\* thread reads
NextSharing ==
  \/ \E c \in Live \cap {"a", ResultCell(Worker)} :
       \/ \E v \in SetValues : GaugeCell_set(Worker, c, v)
       \/ GaugeCell_reset(Worker, c)
       \/ \E v \in SetValues : DistributionCell_update(Worker, c, v)
       \/ DistributionCell_reset(Worker, c)
  \/ GaugeCell_combine(Worker, "a", "b")
  \/ GaugeCell_combine(Worker, "b", "a")
  \/ DistributionCell_combine(Worker, "a", "b")
  \/ DistributionCell_combine(Worker, "b", "a")
  \/ \E c \in Live \cap {"a", ResultCell(Worker)} :
       \/ GaugeCell_get_cumulative(Reporter, c)
       \/ DistributionCell_get_cumulative(Reporter, c)
  \/ \E t \in Threads :
       \/ GaugeUpdateSteps(t)
       \/ GaugeGetSteps(t)
       \/ GaugeCombineSteps(t)
       \/ DistUpdateSteps(t)
       \/ DistGetSteps(t)
       \/ DistCombineSteps(t)

SpecSharing ==
  InitCells({"gauge", "distribution"}, BOOLEAN, MaxRaceCalls)
    /\ [][NextSharing]_vars

\* inc, dec and get_cumulative on one CounterCell
NextCounter ==
  \E t \in Threads :
    \/ \E n \in IncArgs : CounterCell_inc(t, "a", n)
    \/ \E n \in DecArgs : CounterCell_dec(t, "a", n)
    \/ CounterCell_get_cumulative(t, "a")
    \/ CounterCell_update_compiled(t)
    \/ CounterCell_update_acquire(t)
    \/ CounterCell_update_load(t)
    \/ CounterCell_update_store(t)
    \/ CounterCell_update_release(t)
    \/ CounterCell_get_cumulative_acquire(t)
    \/ CounterCell_get_cumulative_read(t)

SpecCounter ==
  InitCells({"counter"}, BOOLEAN, MaxCalls) /\ [][NextCounter]_vars

\* the same with reset
NextCounterReset ==
  \/ NextCounter
  \/ \E t \in Threads : CounterCell_reset(t, "a")

SpecCounterReset ==
  InitCells({"counter"}, BOOLEAN, MaxCalls) /\ [][NextCounterReset]_vars

\* inc, dec and combine of two CounterCells by the thread that runs the
\* bundle, while the reporting thread reads the cells
NextCounterCombine ==
  \/ \E n \in IncArgs : CounterCell_inc(Worker, "a", n)
  \/ \E n \in DecArgs : CounterCell_dec(Worker, "b", n)
  \/ \E c \in Cells, o \in Cells : CounterCell_combine(Worker, c, o)
  \/ \E c \in Cells : CounterCell_get_cumulative(Reporter, c)
  \/ \E t \in Threads : CounterSteps(t)

SpecCounterCombine ==
  InitCells({"counter"}, BOOLEAN, MaxCalls) /\ [][NextCounterCombine]_vars

\* update/set, reset and get_cumulative on one DistributionCell or one
\* GaugeCell
NextSnapshot ==
  \E t \in Threads :
    \/ \E v \in UpdateValues : DistributionCell_update(t, "a", v)
    \/ DistributionCell_reset(t, "a")
    \/ DistributionCell_get_cumulative(t, "a")
    \/ DistUpdateSteps(t)
    \/ DistGetSteps(t)
    \/ \E v \in SetValues : GaugeCell_set(t, "a", v)
    \/ GaugeCell_reset(t, "a")
    \/ GaugeCell_get_cumulative(t, "a")
    \/ GaugeUpdateSteps(t)
    \/ GaugeGetSteps(t)

SpecSnapshot ==
  InitCells({"distribution", "gauge"}, BOOLEAN, MaxRaceCalls)
    /\ [][NextSnapshot]_vars

\* every method of CounterCell and DistributionCell on two shared cells:
\* updates of both, reads and resets of a, and a.combine(b), b.combine(a)
NextAll ==
  \E t \in Threads :
    \/ \E c \in Cells, n \in DecArgs : CounterCell_inc(t, c, n)
    \/ CounterCell_reset(t, "a")
    \/ CounterCell_get_cumulative(t, "a")
    \/ \E c \in Cells : \E o \in Cells \ {c} : CounterCell_combine(t, c, o)
    \/ \E c \in Cells, v \in DecArgs : DistributionCell_update(t, c, v)
    \/ DistributionCell_reset(t, "a")
    \/ DistributionCell_get_cumulative(t, "a")
    \/ \E c \in Cells : \E o \in Cells \ {c} :
         DistributionCell_combine(t, c, o)

\* the steps a thread takes inside the method it has called
Steps(t) ==
  \/ CounterSteps(t)
  \/ DistUpdateSteps(t)
  \/ DistGetSteps(t)
  \/ DistCombineSteps(t)

NextFair == NextAll \/ \E t \in Threads : Steps(t)

\* the scheduler runs every thread that can take a step; nothing obliges
\* a thread to make a call
SpecFair ==
  /\ InitCells({"counter", "distribution"}, BOOLEAN, MaxFairCalls)
  /\ [][NextFair]_vars
  /\ \A t \in Threads : WF_vars(Steps(t))

\* every method of DistributionCell: update, reset and get_cumulative on
\* cell a, and a.combine(b), b.combine(a)
NextDistAll ==
  \E t \in Threads :
    \/ \E v \in UpdateValues : DistributionCell_update(t, "a", v)
    \/ DistributionCell_reset(t, "a")
    \/ DistributionCell_get_cumulative(t, "a")
    \/ \E c \in Cells : \E o \in Cells \ {c} :
         DistributionCell_combine(t, c, o)
    \/ DistUpdateSteps(t)
    \/ DistGetSteps(t)
    \/ DistCombineSteps(t)

SpecDistAll ==
  InitCells({"distribution"}, BOOLEAN, MaxRaceCalls) /\ [][NextDistAll]_vars

(***************************************************************************)
(* Snapshots of two DistributionCells merged by the aggregator: the        *)
(* reporting path of the module.                                           *)
(***************************************************************************)
BagPlus(x, y) == [v \in ArgVals |-> x[v] + y[v]]

\* DistributionAggregator.combine(x, y) on two snapshots get_cumulative
\* returned: x.combine(y) builds a new DistributionData from objects no
\* cell holds, so no other thread can interleave with it
DistributionAggregator_combine_snapshots(t) ==
  /\ CanCall(t, "distribution")
  /\ calls' = calls - 1
  /\ \E x \in snaps, y \in snaps :
       LET d == DistributionAggregator_combine(heap[x.obj], heap[y.obj])
           o == Len(heap) + 1
       IN /\ heap' = Append(heap, d)
          /\ ret' = [ret EXCEPT ![t] =
                       [NoRet EXCEPT !.tag = "snap", !.obj = o]]
          /\ snaps' = snaps \cup
               {[cell |-> "merged", obj |-> o, val |-> d,
                 committed |-> BagPlus(x.committed, y.committed),
                 total |-> BagPlus(x.total, y.total),
                 quiet |-> FALSE]}
  /\ UNCHANGED <<compiled, kind, lock, value, data, pc, frame, invoked,
                 applied, since, sets, alg>>

\* update and get_cumulative on two DistributionCells, and the merge of
\* their snapshots
RangeValues == {-1, 7}

NextRange ==
  \/ \E c \in Cells, v \in RangeValues :
       DistributionCell_update(Worker, c, v)
  \/ \E c \in Cells : DistributionCell_get_cumulative(Reporter, c)
  \/ DistributionAggregator_combine_snapshots(Reporter)
  \/ \E t \in Threads : DistUpdateSteps(t) \/ DistGetSteps(t)

SpecRange ==
  InitCells({"distribution"}, BOOLEAN, MaxCalls) /\ [][NextRange]_vars

(***************************************************************************)
(* The distribution algebra: three DistributionData operands a, b, c are   *)
(* built by the constructor and combined pairwise, then three-way.         *)
(***************************************************************************)
SumVals == {-3, 10}
MinVals == {-3, 1, INT64_MAX}
MaxVals == {-3, 9, -INT64_MAX - 1}

DistInputs ==
  { DistributionData(s, n, mn, mx) :
      s \in SumVals, n \in 0..MaxCount, mn \in MinVals, mx \in MaxVals }

Unset == [unset |-> TRUE]

InitDistAlgebra ==
  /\ NoCells
  /\ heap = <<>>
  /\ \E x \in DistInputs, y \in DistInputs, z \in DistInputs :
       alg = [stage |-> 0, a |-> x, b |-> y, c |-> z,
              ab |-> Unset, ba |-> Unset, an |-> Unset, bc |-> Unset,
              ea |-> Unset, ae |-> Unset, ab_c |-> Unset, a_bc |-> Unset]

\* x.combine(y) for the pairs, and with the aggregator's identity element
DistCombinePairs ==
  /\ kind = "none"
  /\ alg.stage = 0
  /\ alg' = [alg EXCEPT
        !.stage = 1,
        !.ab = DistributionAggregator_combine(alg.a, alg.b),
        !.ba = DistributionAggregator_combine(alg.b, alg.a),
        !.bc = DistributionAggregator_combine(alg.b, alg.c),
        !.an = DistributionData_combine(alg.a, NoneData),
        !.ea = DistributionAggregator_combine(
                 DistributionAggregator_identity_element, alg.a),
        !.ae = DistributionAggregator_combine(
                 alg.a, DistributionAggregator_identity_element)]
  /\ UNCHANGED <<cellVars, heap>>

\* the two groupings of the three-way fold
DistCombineTriples ==
  /\ kind = "none"
  /\ alg.stage = 1
  /\ alg' = [alg EXCEPT
        !.stage = 2,
        !.ab_c = DistributionAggregator_combine(alg.ab, alg.c),
        !.a_bc = DistributionAggregator_combine(alg.a, alg.bc)]
  /\ UNCHANGED <<cellVars, heap>>

NextDistAlgebra == DistCombinePairs \/ DistCombineTriples

SpecDistAlgebra == InitDistAlgebra /\ [][NextDistAlgebra]_vars

(***************************************************************************)
(* DistributionResult: the view of a DistributionData that reporting code  *)
(* reads.  `/` is true division (from __future__ import division): its     *)
(* quotient is kept exact, as a fraction in lowest terms with a positive   *)
(* denominator.                                                            *)
(***************************************************************************)
Abs(n) == IF n < 0 THEN -n ELSE n

RECURSIVE GCD(_, _)
GCD(x, y) == IF y = 0 THEN x ELSE GCD(y, x % y)

\* x / y, y # 0
TrueDiv(x, y) ==
  LET g == GCD(Abs(x), Abs(y))
      sgn == IF y < 0 THEN -1 ELSE 1
  IN <<(sgn * x) \div g, (sgn * y) \div g>>

\* x // y, the quotient Python 2 gives for ints without the __future__ import
FloorDiv(x, y) == <<x \div y, 1>>

\* DistributionResult.__init__
DistributionResult(d) == [data |-> d]

\* DistributionResult.max
DistributionResult_max(self) ==
  IF self.data.count # 0 THEN PyInt(self.data.max) ELSE None

\* DistributionResult.min
DistributionResult_min(self) ==
  IF self.data.count # 0 THEN PyInt(self.data.min) ELSE None

\* DistributionResult.count
DistributionResult_count(self) == self.data.count

\* DistributionResult.sum
DistributionResult_sum(self) == self.data.sum

\* DistributionResult.mean with floor division
DistributionResult_mean_FloorDiv(self) ==
  IF self.data.count = 0 THEN None
  ELSE FloorDiv(self.data.sum, self.data.count)

\* DistributionResult.mean
DistributionResult_mean(self) ==
  IF self.data.count = 0 THEN None
  ELSE TrueDiv(self.data.sum, self.data.count)

\* DistributionAggregator.result
DistributionAggregator_result(x) ==
  DistributionResult(DistributionData_get_cumulative(x))

\* the five properties of a result view, as reporting code reads them
ReadResult(r) ==
  [sum |-> DistributionResult_sum(r), count |-> DistributionResult_count(r),
   min |-> DistributionResult_min(r), max |-> DistributionResult_max(r),
   mean |-> DistributionResult_mean(r)]

ResultSums == {-3, 7, 10, 16}
ResultInputs ==
  { DistributionData(sm, n, mn, mx) :
      sm \in ResultSums, n \in 0..(2 * MaxCount), mn \in MinVals,
      mx \in MaxVals }

InitDistResult ==
  /\ NoCells
  /\ heap = <<>>
  /\ \E d \in ResultInputs :
       alg = [stage |-> 0, d |-> d, via |-> "none", view |-> Unset,
              empty |-> Unset]

\* DistributionResult(d), and the view of the identity element
DistributionResult_of_data ==
  /\ kind = "none"
  /\ alg.stage = 0
  /\ alg' = [alg EXCEPT
        !.stage = 1,
        !.via = "DistributionResult",
        !.view = ReadResult(DistributionResult(alg.d)),
        !.empty = ReadResult(DistributionResult(
                               DistributionAggregator_identity_element))]
  /\ UNCHANGED <<cellVars, heap>>

\* DistributionAggregator().result(d), and the same of the identity element
DistributionAggregator_result_of_data ==
  /\ kind = "none"
  /\ alg.stage = 0
  /\ alg' = [alg EXCEPT
        !.stage = 1,
        !.via = "DistributionAggregator.result",
        !.view = ReadResult(DistributionAggregator_result(alg.d)),
        !.empty = ReadResult(DistributionAggregator_result(
                               DistributionAggregator_identity_element))]
  /\ UNCHANGED <<cellVars, heap>>

NextDistResult ==
  DistributionResult_of_data \/ DistributionAggregator_result_of_data

SpecDistResult == InitDistResult /\ [][NextDistResult]_vars

(***************************************************************************)
(* The gauge algebra: three GaugeData objects on the heap, at references   *)
(* 1, 2 and 3; the results of combine are references.                      *)
(***************************************************************************)
GaugeValues == {None, PyInt(5), PyInt(9)}
Timestamps == {None} \cup {PyInt(n) : n \in 0..MaxTime}

GaugeInputs == { GaugeData(v, ts) : v \in GaugeValues, ts \in Timestamps }

InitGaugeAlgebra ==
  /\ NoCells
  /\ \E x \in GaugeInputs, y \in GaugeInputs, z \in GaugeInputs :
       heap = <<x, y, z>>
  /\ alg = [stage |-> 0, a |-> 1, b |-> 2, c |-> 3, e |-> NoneRef,
            ab |-> NoneRef, ba |-> NoneRef, an |-> NoneRef, bc |-> NoneRef,
            ea |-> NoneRef, ae |-> NoneRef, ab_c |-> NoneRef, a_bc |-> NoneRef]

\* x.combine(y) for the pairs, and with a fresh identity element
GaugeCombinePairs ==
  /\ kind = "none"
  /\ alg.stage = 0
  /\ LET e == Len(heap) + 1
         h == Append(heap, GaugeAggregator_identity_element)
     IN /\ heap' = h
        /\ alg' = [alg EXCEPT
              !.stage = 1,
              !.e = e,
              !.ab = GaugeData_combine(h, alg.a, alg.b),
              !.ba = GaugeData_combine(h, alg.b, alg.a),
              !.bc = GaugeData_combine(h, alg.b, alg.c),
              !.an = GaugeData_combine(h, alg.a, NoneRef),
              !.ea = GaugeAggregator_combine(h, e, alg.a),
              !.ae = GaugeAggregator_combine(h, alg.a, e)]
  /\ UNCHANGED cellVars

\* the two groupings of the three-way fold
GaugeCombineTriples ==
  /\ kind = "none"
  /\ alg.stage = 1
  /\ alg' = [alg EXCEPT
        !.stage = 2,
        !.ab_c = GaugeAggregator_combine(heap, alg.ab, alg.c),
        !.a_bc = GaugeAggregator_combine(heap, alg.a, alg.bc)]
  /\ UNCHANGED <<cellVars, heap>>

NextGaugeAlgebra == GaugeCombinePairs \/ GaugeCombineTriples

SpecGaugeAlgebra == InitGaugeAlgebra /\ [][NextGaugeAlgebra]_vars

(***************************************************************************)
(* Folds of three GaugeData objects: every order and both groupings.       *)
(***************************************************************************)
Perms3 ==
  {<<1, 2, 3>>, <<1, 3, 2>>, <<2, 1, 3>>, <<2, 3, 1>>, <<3, 1, 2>>,
   <<3, 2, 1>>}

InitGaugeFold ==
  /\ NoCells
  /\ \E x \in GaugeInputs, y \in GaugeInputs, z \in GaugeInputs :
       heap = <<x, y, z>>
  /\ alg = [stage |-> 0, a |-> 1, b |-> 2, c |-> 3, e |-> NoneRef,
            ab |-> NoneRef, ba |-> NoneRef, an |-> NoneRef, bc |-> NoneRef,
            ea |-> NoneRef, ae |-> NoneRef, ab_c |-> NoneRef,
            a_bc |-> NoneRef, folds |-> {}]

\* combine(combine(x, y), z) and combine(x, combine(y, z)) for every order
\* x, y, z of the three objects
GaugeFoldAll ==
  /\ kind = "none"
  /\ alg.stage = 2
  /\ alg' = [alg EXCEPT
        !.stage = 3,
        !.folds =
          { GaugeAggregator_combine(
              heap, GaugeAggregator_combine(heap, p[1], p[2]), p[3]) :
              p \in Perms3 }
          \cup
          { GaugeAggregator_combine(
              heap, p[1], GaugeAggregator_combine(heap, p[2], p[3])) :
              p \in Perms3 }]
  /\ UNCHANGED <<cellVars, heap>>

NextGaugeFold == GaugeCombinePairs \/ GaugeCombineTriples \/ GaugeFoldAll

SpecGaugeFold == InitGaugeFold /\ [][NextGaugeFold]_vars

(***************************************************************************)
(* Claims about the cells.                                                 *)
(***************************************************************************)
RECURSIVE SumOver(_, _)
SumOver(S, bag) ==
  IF S = {} THEN 0
  ELSE LET v == CHOOSE x \in S : TRUE
       IN v * bag[v] + SumOver(S \ {v}, bag)

\* the signed sum of the deltas in a bag of calls
BagSum(bag) == SumOver(ArgVals, bag)

AllIdle == \A t \in Threads : pc[t] = "idle"

\* C1: without reset, once all inc/dec calls on a CounterCell have
\* returned its value (and what get_cumulative returns) is the exact signed
\* sum of all deltas, in every interleaving; inc(1), inc(5), dec(2) give 4.
C1_CounterExactSum ==
  /\ AllIdle => value["a"] = BagSum(invoked["a"])
  /\ \A s \in snaps :
       /\ s.val = BagSum(s.committed)
       /\ s.quiet => s.val = BagSum(s.total)

C1_Witness ==
  /\ AllIdle
  /\ ~compiled
  /\ invoked["a"] = [EmptyBag EXCEPT ![1] = 1, ![5] = 1, ![-2] = 1]
  /\ value["a"] = 4

\* C8 as stated: reset is atomic with respect to each update, so once all
\* calls have returned the value of the cell is the sum of the deltas of
\* the updates that took effect after the last reset.
C8_ResetAtomic ==
  AllIdle => value["a"] = since["a"]

RECURSIVE CountOver(_, _)
CountOver(S, bag) ==
  IF S = {} THEN 0
  ELSE LET v == CHOOSE x \in S : TRUE
       IN bag[v] + CountOver(S \ {v}, bag)

\* the number of values in a bag, and the least and greatest of them
BagCount(bag) == CountOver(ArgVals, bag)
BagMin(bag) ==
  CHOOSE m \in {v \in ArgVals : bag[v] > 0} :
    \A v \in ArgVals : bag[v] > 0 => m <= v
BagMax(bag) ==
  CHOOSE m \in {v \in ArgVals : bag[v] > 0} :
    \A v \in ArgVals : bag[v] > 0 => m >= v

\* what a distribution of exactly the values of a bag is: their number,
\* sum, minimum and maximum, the identity element for no values
FoldOf(bag) ==
  IF BagCount(bag) = 0
    THEN [sum |-> 0, count |-> 0, min |-> INT64_MAX, max |-> -INT64_MAX - 1]
    ELSE [sum |-> BagSum(bag), count |-> BagCount(bag),
          min |-> BagMin(bag), max |-> BagMax(bag)]

ScenarioB == [EmptyBag EXCEPT ![3] = 1, ![-1] = 1, ![7] = 2]

\* C2: without reset, every snapshot get_cumulative returns of a
\* DistributionCell is the fold of a whole number of updates (count, sum,
\* min and max of exactly the updates that completed before the read), and
\* once all updates have returned the cell holds the fold of all of them;
\* updates 3, -1, 7, 7 give sum 16, count 4, min -1, max 7.
C2_UpdateAtomic ==
  /\ \A s \in snaps :
       /\ s.val = FoldOf(s.committed)
       /\ s.quiet => s.val = FoldOf(s.total)
  /\ AllIdle => heap[data["a"]] = FoldOf(invoked["a"])
  /\ (AllIdle /\ invoked["a"] = ScenarioB) =>
       heap[data["a"]] = [sum |-> 16, count |-> 4, min |-> -1, max |-> 7]

C2_Witness ==
  /\ AllIdle
  /\ ~compiled
  /\ invoked["a"] = ScenarioB
  /\ heap[data["a"]] = [sum |-> 16, count |-> 4, min |-> -1, max |-> 7]
  /\ \E s \in snaps : ~s.quiet /\ s.val.count = 2 /\ s.total # s.committed

\* C7: a snapshot returned by get_cumulative is an isolated copy: it is
\* not the object the cell holds, and no later update, set or reset on the
\* cell changes any of its fields.
C7_SnapshotIsolated ==
  \A s \in snaps :
    /\ heap[s.obj] = s.val
    /\ \A c \in Cells : data[c] # s.obj

C7_Witness ==
  /\ kind = "distribution"
  /\ \E s \in snaps :
       /\ s.val.count = 1
       /\ heap[s.obj] = s.val
       /\ heap[data[s.cell]].count = 2

C7_WitnessGauge ==
  /\ kind = "gauge"
  /\ \E s \in snaps :
       /\ s.val.value = PyInt(5)
       /\ heap[s.obj] = s.val
       /\ heap[data[s.cell]].value = PyInt(9)

\* the bags of updates contained in a bag
SubBags(bag) ==
  { [v \in ArgVals |-> IF v \in UpdateValues THEN f[v] ELSE 0] :
      f \in { g \in [UpdateValues -> 0..MaxRaceCalls] :
                \A v \in UpdateValues : g[v] <= bag[v] } }

\* C9 as stated: the cell a.combine(b) returns holds the
\* DistributionData.combine of two snapshots, one of a and one of b, each
\* the fold of a whole number of updates of its cell.
C9_CombineOfSnapshots ==
  \A t \in Threads :
    (kind = "distribution" /\ ret[t].tag = "cell") =>
      \E x \in SubBags(invoked[ret[t].self]),
         y \in SubBags(invoked[ret[t].other]) :
        heap[ret[t].obj] = DistributionData_combine(FoldOf(x), FoldOf(y))

\* the cell locks a thread holds
Held(t) == {c \in AllCells : lock[c] = t}

\* C10: no thread ever holds more than one cell lock, a thread inside
\* combine holds no lock of a shared cell, some thread inside a call can
\* always take a step (no deadlock), and under fair scheduling every call
\* returns.
C10_NoDeadlock ==
  /\ [](\A t \in Threads : Cardinality(Held(t)) <= 1)
  /\ [](\A t \in Threads :
          frame[t].op = "combine" => Held(t) \cap Cells = {})
  /\ [](~AllIdle => ENABLED (\E t \in Threads : Steps(t)))
  /\ \A t \in Threads : (pc[t] # "idle") ~> (pc[t] = "idle")

C10_Witness ==
  \E t \in Threads, u \in Threads :
    /\ t # u
    /\ ~compiled
    /\ frame[t].op = "combine" /\ frame[u].op = "combine"
    /\ frame[t].other = "b" /\ frame[u].other = "a"
    /\ pc[t] = "dist_combine_other" /\ pc[u] = "dist_combine_other"

(***************************************************************************)
(* Claims about the algebra.                                               *)
(***************************************************************************)
ScenarioC_a == [sum |-> 10, count |-> 2, min |-> 1, max |-> 9]
ScenarioC_b == [sum |-> -3, count |-> 1, min |-> -3, max |-> -3]
ScenarioC_ab == [sum |-> 7, count |-> 3, min |-> -3, max |-> 9]

\* C3: distribution combine is commutative (a.b == b.a) and associative
\* ((a.b).c == a.(b.c)) for all snapshots a, b, c, and combining
\* {10,2,1,9} with {-3,1,-3,-3} gives {7,3,-3,9}.
C3_CombineAssocComm ==
  /\ alg.stage >= 1 => DistributionData_eq(alg.ab, alg.ba)
  /\ alg.stage = 2 => DistributionData_eq(alg.ab_c, alg.a_bc)
  /\ (alg.stage >= 1 /\ alg.a = ScenarioC_a /\ alg.b = ScenarioC_b)
       => alg.ab = ScenarioC_ab

C3_Witness ==
  /\ alg.stage = 2
  /\ alg.a = ScenarioC_a
  /\ alg.b = ScenarioC_b
  /\ alg.ab = ScenarioC_ab
  /\ alg.c.count > 0
  /\ alg.ab_c.count = alg.c.count + 3

\* C4: the identity element is neutral for distribution combine on both
\* sides: combine(identity, s) == s and combine(s, identity) == s, and the
\* result has exactly the min and max of s.
C4_IdentityNeutral ==
  alg.stage >= 1 =>
    /\ DistributionData_eq(alg.ea, alg.a)
    /\ DistributionData_eq(alg.ae, alg.a)
    /\ alg.ea.min = alg.a.min /\ alg.ea.max = alg.a.max
    /\ alg.ae.min = alg.a.min /\ alg.ae.max = alg.a.max

C4_Witness ==
  /\ alg.stage >= 1
  /\ alg.a = ScenarioC_a
  /\ alg.ea = ScenarioC_a
  /\ alg.ae = ScenarioC_a

\* C5 as stated: the gauge identity element is neutral on both sides for
\* every GaugeData x, also when x's timestamp is 0.
C5_IdentityNeutralBothSides ==
  alg.stage >= 1 =>
    /\ GaugeData_eq(heap[alg.ea], heap[alg.a])
    /\ GaugeData_eq(heap[alg.ae], heap[alg.a])

\* C5 as amended: combine(x, identity) == x for every GaugeData x with a
\* timestamp >= 0; combine(identity, x) == x when x's timestamp is > 0 and
\* is the identity element itself when x's timestamp is 0.
C5_IdentityNeutralAmended ==
  alg.stage >= 1 =>
    /\ alg.ae = alg.a
    /\ GaugeData_eq(heap[alg.ae], heap[alg.a])
    /\ heap[alg.a].timestamp > 0 =>
         alg.ea = alg.a /\ GaugeData_eq(heap[alg.ea], heap[alg.a])
    /\ heap[alg.a].timestamp = 0 =>
         alg.ea = alg.e /\ heap[alg.ea] = GaugeAggregator_identity_element

C5_Witness ==
  /\ alg.stage >= 1
  /\ heap[alg.a] = [value |-> PyInt(5), timestamp |-> 0]
  /\ heap[alg.ea] = [value |-> None, timestamp |-> 0]
  /\ heap[alg.ae] = [value |-> PyInt(5), timestamp |-> 0]

\* C6: gauge combine is last-writer-wins by timestamp: a.combine(b) is b
\* exactly when b.timestamp > a.timestamp and is a otherwise (ties return
\* the left operand); a.combine(None) is a; the operands are unchanged.
C6_LastWriterWins ==
  alg.stage >= 1 =>
    /\ (alg.ab = alg.b) <=> (heap[alg.b].timestamp > heap[alg.a].timestamp)
    /\ ~(heap[alg.b].timestamp > heap[alg.a].timestamp) => alg.ab = alg.a
    /\ (alg.ba = alg.a) <=> (heap[alg.a].timestamp > heap[alg.b].timestamp)
    /\ ~(heap[alg.a].timestamp > heap[alg.b].timestamp) => alg.ba = alg.b
    /\ alg.an = alg.a
    /\ (heap[alg.a] = [value |-> PyInt(5), timestamp |-> 1]
          /\ heap[alg.b] = [value |-> PyInt(9), timestamp |-> 2])
         => heap[alg.ab] = [value |-> PyInt(9), timestamp |-> 2]

C6_Witness ==
  /\ alg.stage >= 1
  /\ heap[alg.a] = [value |-> PyInt(5), timestamp |-> 1]
  /\ heap[alg.b] = [value |-> PyInt(9), timestamp |-> 2]
  /\ alg.ab = alg.b
  /\ alg.ba = alg.b

C6_WitnessTie ==
  /\ alg.stage >= 1
  /\ heap[alg.a].timestamp = heap[alg.b].timestamp
  /\ heap[alg.a].value # heap[alg.b].value
  /\ alg.ab = alg.a

(***************************************************************************)
(* Claims about the data a distribution holds.                             *)
(***************************************************************************)
\* C11: every snapshot with count > 0, taken from a DistributionCell or
\* merged from such snapshots, has min <= v <= max for every value v
\* recorded into it, and min <= max; its count is the number of recorded
\* values.
C11_RangeInvariant ==
  \A s \in snaps :
    /\ s.val.count = BagCount(s.committed)
    /\ s.val.count > 0 =>
         /\ s.val.min <= s.val.max
         /\ \A v \in ArgVals :
              s.committed[v] > 0 => (s.val.min <= v /\ v <= s.val.max)

C11_Witness ==
  \E s \in snaps :
    /\ s.cell = "merged"
    /\ s.val.count = 2
    /\ s.committed[7] = 1 /\ s.committed[-1] = 1
    /\ s.val.min = -1 /\ s.val.max = 7
    /\ \E x \in snaps : x.cell = "a" /\ x.val.max = -1
    /\ \E y \in snaps : y.cell = "b" /\ y.val.min = 7

\* the sentinel state of a DistributionData without data
Sentinel(d) ==
  d.count = 0 => (d.min = INT64_MAX /\ d.max = -INT64_MAX - 1 /\ d.sum = 0)

\* C12 as stated: in every reachable state every DistributionData, held
\* live by a cell or returned by the constructor, get_cumulative or
\* combine, has count == 0 => (min == 2^63-1, max == -2^63, sum == 0).
C12_SentinelInvariant ==
  \A o \in 1..Len(heap) : Sentinel(heap[o])

\* the part of C12 that holds: every DistributionData that get_cumulative
\* or combine returned is in the sentinel state when its count is 0
C12_ReturnedSentinel ==
  /\ \A s \in snaps : Sentinel(s.val) /\ Sentinel(heap[s.obj])
  /\ \A t \in Threads : ret[t].tag = "cell" => Sentinel(heap[ret[t].obj])

\* C13: the result view of a DistributionData d reports min, max and mean
\* as None when d.count == 0 (never the sentinels); when d.count > 0 it
\* reports min == d.min, max == d.max and mean == d.sum / d.count (the exact
\* quotient: mean * count == sum); sum and count pass through unchanged.
C13_ResultProjection ==
  alg.stage = 1 =>
    /\ alg.view.sum = alg.d.sum
    /\ alg.view.count = alg.d.count
    /\ alg.d.count = 0 =>
         /\ alg.view.min = None
         /\ alg.view.max = None
         /\ alg.view.mean = None
    /\ alg.d.count > 0 =>
         /\ alg.view.min = PyInt(alg.d.min)
         /\ alg.view.max = PyInt(alg.d.max)
         /\ alg.view.mean # None
         /\ alg.view.mean[2] > 0
         /\ alg.view.mean[1] * alg.d.count = alg.d.sum * alg.view.mean[2]
    /\ alg.empty.min = None /\ alg.empty.max = None /\ alg.empty.mean = None
    /\ alg.empty.sum = 0 /\ alg.empty.count = 0
    /\ (alg.d.sum = 16 /\ alg.d.count = 4) => alg.view.mean = <<4, 1>>

C13_Witness ==
  /\ alg.stage = 1
  /\ alg.via = "DistributionAggregator.result"
  /\ alg.d = [sum |-> 10, count |-> 4, min |-> -3, max |-> 9]
  /\ alg.view = [sum |-> 10, count |-> 4, min |-> PyInt(-3),
                 max |-> PyInt(9), mean |-> <<5, 2>>]
  /\ alg.empty.min = None

(***************************************************************************)
(* Claims about combine of cells.                                          *)
(***************************************************************************)
\* thread t takes a step of CounterCell.combine
CombineStep(t) ==
  /\ pc'[t] # pc[t]
  /\ frame[t].op = "combine" \/ frame'[t].op = "combine"

\* thread t returns from CounterCell.combine
CombineReturns(t) ==
  /\ frame[t].op = "combine"
  /\ pc'[t] = "idle"
  /\ pc[t] # "idle"

\* C14: CounterCell.combine leaves both input cells unchanged (no step of
\* combine changes the value of a shared cell, so get_cumulative of self and
\* of other is the same before and after), and the cell it returns is a new
\* cell whose value is self.value + other.value.
C14_CombineFrame ==
  /\ [][\A t \in Threads :
          CombineStep(t) => \A c \in Cells : value'[c] = value[c]]_vars
  /\ [][\A t \in Threads :
          CombineReturns(t) =>
            /\ ret'[t].tag = "cell"
            /\ ret'[t].val = value[ret'[t].self] + value[ret'[t].other]
            /\ value'[ResultCell(t)] = ret'[t].val
            /\ ResultCell(t) \notin Cells]_vars
  /\ [](\A s \in snaps : s.val = BagSum(s.committed))

C14_Witness ==
  /\ ~compiled
  /\ ret[Worker] = [tag |-> "cell", val |-> 4, obj |-> NoneRef,
                    self |-> "a", other |-> "b"]
  /\ value["a"] = 6 /\ value["b"] = -2
  /\ value[ResultCell(Worker)] = 4
  /\ \E s \in snaps : s.cell = "a" /\ s.val = 6

(***************************************************************************)
(* Claims about GaugeCell.                                                 *)
(***************************************************************************)
\* C15: without reset, every snapshot get_cumulative returns of a GaugeCell
\* is the (value, timestamp) pair written by one single set call, the one
\* that held the lock last before the read, whatever the timestamp stored
\* before (the identity element when no set call came before the read).
C15_SetOverwrites ==
  \A s \in snaps :
    /\ s.val = s.latest
    /\ heap[s.obj] = s.latest

C15_Witness ==
  /\ sets["a"] = <<[value |-> PyInt(5), timestamp |-> 2],
                   [value |-> PyInt(9), timestamp |-> 1]>>
  /\ \E s \in snaps :
       /\ s.val = [value |-> PyInt(9), timestamp |-> 1]
       /\ heap[s.obj] = s.val

\* the pairs the set calls on cell c wrote
Written(c) == {sets[c][i] : i \in 1..Len(sets[c])}

\* a GaugeData of cell c that is not torn
Whole(c, d) == d = GaugeAggregator_identity_element \/ d \in Written(c)

\* C17 as stated: under any interleaving of set, reset and get_cumulative
\* on one GaugeCell, the data the cell holds (outside the critical section
\* of a set) and every snapshot get_cumulative returned is the identity
\* element or the (value, timestamp) pair written by one single set call.
C17_NoTornGauge ==
  /\ lock["a"] = NoThread => Whole("a", heap[data["a"]])
  /\ \A s \in snaps : Whole("a", s.val)

(***************************************************************************)
(* Claims about the base classes.                                          *)
(***************************************************************************)
\* C16 as stated: constructing a base MetricCell or MetricAggregator fails
\* with NotImplementedError, so no object of a base class is ever created.
C16_ConstructionFails ==
  kind = "base" =>
    /\ heap = <<>>
    /\ \A t \in Threads : ret[t].tag # "object"

BaseMethods ==
  {"update", "get_cumulative", "__reduce__", "identity_element", "combine",
   "result"}

\* C16 as amended: constructing a base MetricCell or MetricAggregator
\* succeeds and returns the object; every method of the base contract
\* called on it raises NotImplementedError, so no call ever returns a
\* metric value, and the raise changes no state.
C16_BaseFailsOnUse ==
  /\ [](\A t \in Threads :
          /\ ret[t].tag \in {"none", "object", "NotImplementedError"}
          /\ ret[t].tag = "object" =>
               ret[t].obj \in Objects("MetricCell")
                                \cup Objects("MetricAggregator")
          /\ frame[t].op \in BaseMethods => pc[t] = "base_raise")
  /\ [][\A t \in Threads :
          (pc[t] = "base_raise" /\ pc'[t] = "idle") =>
            /\ ret'[t].tag = "NotImplementedError"
            /\ UNCHANGED <<heap, lock, value, data>>]_vars
  /\ [][\A t \in Threads :
          (pc[t] = "cell_init" /\ pc'[t] = "idle") =>
            /\ ret'[t].tag = "object"
            /\ heap' = Append(heap, [class |-> "MetricCell",
                                      lock |-> NoThread])
            /\ ret'[t].obj = Len(heap')]_vars

C16_Witness ==
  /\ Objects("MetricCell") # {}
  /\ Objects("MetricAggregator") # {}
  /\ ret["t1"].tag = "NotImplementedError"
  /\ ret["t2"].tag = "object"
  /\ calls = 0

\* what get_cumulative of cell c returns in this state
Cumulative(c) ==
  IF kind = "gauge" THEN GaugeData_get_cumulative(heap[data[c]])
  ELSE DistributionData_get_cumulative(heap[data[c]])

\* thread t takes a step of set/update that stores into the data of cell c
Mutates(t, c) ==
  /\ frame[t].op = "update"
  /\ frame[t].self = c
  /\ pc'[t] # pc[t]

\* C18 as stated: the cell r = a.combine(b) shares no mutable state with a
\* and b: no step of a set/update or reset on one cell changes what
\* get_cumulative of another cell returns.
C18_NoSharedState ==
  [][\A c \in Live : \A d \in Live \ {c} :
       ((\E t \in Threads : Mutates(t, c)) \/ data'[c] # data[c])
         => Cumulative(d)' = Cumulative(d)]_vars

\* the part of C18 that holds: for DistributionCell the cell combine
\* returns holds a DistributionData of its own
C18_DistributionNoSharedState ==
  [][kind = "distribution" =>
       \A c \in Live : \A d \in Live \ {c} :
         ((\E t \in Threads : Mutates(t, c)) \/ data'[c] # data[c])
           => Cumulative(d)' = Cumulative(d)]_vars

(***************************************************************************)
(* Claims about folds of gauges.                                           *)
(***************************************************************************)
\* the timestamps of the three objects are pairwise distinct
DistinctTimestamps ==
  /\ heap[1].timestamp # heap[2].timestamp
  /\ heap[1].timestamp # heap[3].timestamp
  /\ heap[2].timestamp # heap[3].timestamp

\* the object with the greatest timestamp
Latest ==
  CHOOSE o \in 1..3 : \A q \in 1..3 : heap[o].timestamp >= heap[q].timestamp

\* C19: gauge combine is associative for all GaugeData a, b, c, ties
\* included; it is commutative whenever the two timestamps differ; folding
\* three snapshots with pairwise distinct timestamps in any order and
\* grouping yields the snapshot with the greatest timestamp.
C19_GaugeFold ==
  /\ alg.stage >= 1 =>
       (heap[alg.a].timestamp # heap[alg.b].timestamp =>
          /\ alg.ab = alg.ba
          /\ GaugeData_eq(heap[alg.ab], heap[alg.ba]))
  /\ alg.stage >= 2 =>
       /\ alg.ab_c = alg.a_bc
       /\ GaugeData_eq(heap[alg.ab_c], heap[alg.a_bc])
  /\ (alg.stage = 3 /\ DistinctTimestamps) => alg.folds = {Latest}

C19_Witness ==
  /\ alg.stage = 3
  /\ heap[1] = [value |-> PyInt(5), timestamp |-> 1]
  /\ heap[2] = [value |-> PyInt(9), timestamp |-> 2]
  /\ heap[3] = [value |-> None, timestamp |-> 0]
  /\ alg.folds = {2}
  /\ alg.ab_c = 2 /\ alg.a_bc = 2

\* associativity where timestamps tie: the leftmost of the latest wins in
\* both groupings
C19_WitnessTie ==
  /\ alg.stage = 3
  /\ heap[1] = [value |-> PyInt(5), timestamp |-> 1]
  /\ heap[2] = [value |-> PyInt(9), timestamp |-> 1]
  /\ heap[3] = [value |-> PyInt(5), timestamp |-> 1]
  /\ alg.ab_c = 1 /\ alg.a_bc = 1
  /\ alg.folds = {1, 2, 3}

====
